---- MODULE Spec2Model ----
(***************************************************************************)
(* Model of the C declaration pipeline of list_syscalls:                   *)
(*   clex.clex -> typedecl.parse -> typedecl.TypeDecl -> fundecl.parse     *)
(*   and c_output.simplify, of the loop of musl.find_decls over the        *)
(*   declarations it found, and of cache.get_file_from_github.             *)
(* A Python str is a sequence of one-character strings; a raised exception *)
(* is a result record whose exc field names the exception class.           *)
(***************************************************************************)
EXTENDS Integers, Sequences, FiniteSets, TLC

VARIABLES
    text,        \* the input string of fundecl.parse, of TypeDecl or of clex
    op,          \* which entry point this process exercises
    pc,          \* how far the calls on the input have got
    decl,        \* the TypeDecl built from text
    result,      \* what the last call returned or raised
    rebuilt,     \* the TypeDecl built from repr(decl)
    found,       \* musl.find_decls: the declarations still to parse
    ret,         \* musl.find_decls: the declarations collected so far
    remote,      \* cache: the version of the files GitHub serves
    disk,        \* cache: the files of CACHE_DIR
    FILE_CACHE,  \* cache: the runtime file cache
    last         \* cache: the last call of get_file_from_github

vars == <<text, op, pc, decl, result, rebuilt, found, ret, remote, disk,
          FILE_CACHE, last>>

(***************************************************************************)
(* Bounds of the input space.                                              *)
(***************************************************************************)
MaxParams == 2

MaxSpecifiers == 2

MaxPointers == 2

MaxDecls == 2

MaxVersions == 2

MaxPieces == 3

(***************************************************************************)
(* Python values.                                                          *)
(***************************************************************************)
\* The value None (an absent identifier, an unset local).
None == [cls |-> "NoneType", tokens |-> <<>>]

\* A call that returned v.
Ok(v) == [exc |-> "none", val |-> v]

\* A call that raised the exception class e.
Raise(e) == [exc |-> e, val |-> None]

Min(a, b) == IF a < b THEN a ELSE b

\* s[n:] of a Python sequence.
DropFirst(s, n) == IF n >= Len(s) THEN <<>> ELSE SubSeq(s, n + 1, Len(s))

\* s[:n] of a Python sequence, n >= 0.
TakeFirst(s, n) == SubSeq(s, 1, Min(n, Len(s)))

\* str.startswith
StartsWith(s, p) == Len(p) <= Len(s) /\ SubSeq(s, 1, Len(p)) = p

\* sep.join(parts)
RECURSIVE join(_, _)
join(parts, sep) ==
    IF parts = <<>> THEN <<>>
    ELSE IF Len(parts) = 1 THEN parts[1]
    ELSE parts[1] \o sep \o join(Tail(parts), sep)

\* part * n
RECURSIVE repeat(_, _)
repeat(part, n) == IF n <= 0 THEN <<>> ELSE part \o repeat(part, n - 1)

(***************************************************************************)
(* Character classes of the re module.                                     *)
(***************************************************************************)
LowerChars == {"a", "b", "c", "d", "e", "f", "g", "h", "i", "j", "k", "l", "m",
               "n", "o", "p", "q", "r", "s", "t", "u", "v", "w", "x", "y", "z"}

UpperChars == {"A", "B", "C", "D", "E", "F", "G", "H", "I", "J", "K", "L", "M",
               "N", "O", "P", "Q", "R", "S", "T", "U", "V", "W", "X", "Y", "Z"}

DigitChars == {"0", "1", "2", "3", "4", "5", "6", "7", "8", "9"}

\* \s
SpaceChars == {" ", "\t", "\n"}

\* \w
WordChars == LowerChars \cup UpperChars \cup DigitChars \cup {"_"}

\* Length of the longest prefix of s made of characters of class.
RECURSIVE RunLength(_, _)
RunLength(s, class) ==
    IF s = <<>> \/ Head(s) \notin class THEN 0
    ELSE 1 + RunLength(Tail(s), class)

(***************************************************************************)
(* clex.py                                                                 *)
(***************************************************************************)
\* OTHER_TOKENS without the attribute tokens.
OTHER_TOKENS_ellipsis_only == {<<".", ".", ".">>}

\* OTHER_TOKENS
OTHER_TOKENS == {<<".", ".", ".">>, <<"[", "[", "n", "o", "r", "e", "t", "u", "r", "n", "]", "]">>, <<"[", "[", "d", "e", "p", "r", "e", "c", "a", "t", "e", "d", "]", "]">>}

RECURSIVE clexLoop(_, _)
clexLoop(txt, tokens) ==
    IF txt = <<>> THEN tokens
    ELSE IF RunLength(txt, SpaceChars) > 0
         THEN clexLoop(DropFirst(txt, RunLength(txt, SpaceChars)), tokens)
    ELSE IF RunLength(txt, WordChars) > 0
         THEN clexLoop(DropFirst(txt, RunLength(txt, WordChars)),
                       Append(tokens, TakeFirst(txt, RunLength(txt, WordChars))))
    ELSE IF \E other \in OTHER_TOKENS : StartsWith(txt, other)
         THEN LET other == CHOOSE o \in OTHER_TOKENS : StartsWith(txt, o)
              IN clexLoop(DropFirst(txt, Len(other)), Append(tokens, other))
    ELSE clexLoop(Tail(txt), Append(tokens, <<Head(txt)>>))

clex(txt) == clexLoop(txt, <<>>)

(***************************************************************************)
(* typedecl.py                                                             *)
(***************************************************************************)
IGNORE_TOKEN == {<<"_", "_", "u", "s", "e", "r">>, <<"a", "s", "m", "l", "i", "n", "k", "a", "g", "e">>}

TYPE_SPECIFIERS_EXTRA == {<<"f", "d", "_", "s", "e", "t">>, <<"u", "3", "2">>, <<"_", "_", "s", "3", "2">>, <<"u", "6", "4">>, <<"_", "_", "u", "3", "2">>}

\* TYPE_SPECIFIERS_EXTRA_RE.fullmatch(token), the pattern \w+_t
TYPE_SPECIFIERS_EXTRA_RE(token) ==
    /\ Len(token) >= 3
    /\ \A i \in 1..Len(token) : token[i] \in WordChars
    /\ token[Len(token) - 1] = "_"
    /\ token[Len(token)] = "t"

TYPE_SPECIFIERS == {<<"v", "o", "i", "d">>, <<"c", "h", "a", "r">>, <<"s", "h", "o", "r", "t">>, <<"i", "n", "t">>, <<"l", "o", "n", "g">>, <<"f", "l", "o", "a", "t">>,
                    <<"d", "o", "u", "b", "l", "e">>, <<"s", "i", "g", "n", "e", "d">>, <<"u", "n", "s", "i", "g", "n", "e", "d">>, <<"_", "B", "o", "o", "l">>, <<"_", "C", "o", "m", "p", "l", "e", "x">>}

TAG_SPECIFIERS == {<<"s", "t", "r", "u", "c", "t">>, <<"u", "n", "i", "o", "n">>, <<"e", "n", "u", "m">>}

TYPE_QUALIFIERS == {<<"c", "o", "n", "s", "t">>, <<"r", "e", "s", "t", "r", "i", "c", "t">>, <<"v", "o", "l", "a", "t", "i", "l", "e">>, <<"_", "A", "t", "o", "m", "i", "c">>}

POINTER == {<<"*">>}

\* IDENTIFIER_RE.fullmatch(token), the pattern [A-Z_a-z]\w*
IDENTIFIER_RE(token) ==
    /\ Len(token) >= 1
    /\ token[1] \in LowerChars \cup UpperChars \cup {"_"}
    /\ \A i \in 1..Len(token) : token[i] \in WordChars

\* The names that module typedecl binds; any other attribute lookup on the
\* module raises AttributeError.
TypedeclNames == {"re", "clex", "IGNORE_TOKEN", "TYPE_SPECIFIERS_EXTRA",
                  "TYPE_SPECIFIERS_EXTRA_RE", "TYPE_SPECIFIERS",
                  "TAG_SPECIFIERS", "TYPE_QUALIFIERS", "POINTER",
                  "IDENTIFIER_RE", "TypePart", "TypeSpecifier",
                  "TypeQualifier", "Pointer", "Identifier", "parse",
                  "TypeDecl"}

\* An instance of the class partcls.
TypePart(partcls, tokens) == [cls |-> partcls, tokens |-> tokens]

\* partcls.match(tokens): tokens is never empty here.
match(partcls, tokens) ==
    CASE partcls = "TypeSpecifier" ->
           IF \/ tokens[1] \in (TYPE_SPECIFIERS \cup TYPE_SPECIFIERS_EXTRA)
              \/ TYPE_SPECIFIERS_EXTRA_RE(tokens[1])
           THEN 1
           ELSE IF tokens[1] \in TAG_SPECIFIERS THEN 2 ELSE 0
      [] partcls = "TypeQualifier" ->
           IF tokens[1] \in TYPE_QUALIFIERS THEN 1 ELSE 0
      [] partcls = "Pointer" ->
           IF tokens[1] \in POINTER THEN 1 ELSE 0
      [] partcls = "Identifier" ->
           IF IDENTIFIER_RE(tokens[1]) THEN 1 ELSE 0

\* allowafter with a non-empty successor set for Identifier.
allowafter_identifier_repeats(partcls) ==
    CASE partcls = "TypeSpecifier" ->
           <<"TypeSpecifier", "TypeQualifier", "Pointer", "Identifier">>
      [] partcls = "TypeQualifier" ->
           <<"TypeSpecifier", "TypeQualifier", "Pointer", "Identifier">>
      [] partcls = "Pointer" -> <<"TypeQualifier", "Pointer", "Identifier">>
      [] partcls = "Identifier" -> <<"Identifier">>

\* partcls.allowafter()
allowafter(partcls) ==
    CASE partcls = "TypeSpecifier" ->
           <<"TypeSpecifier", "TypeQualifier", "Pointer", "Identifier">>
      [] partcls = "TypeQualifier" ->
           <<"TypeSpecifier", "TypeQualifier", "Pointer", "Identifier">>
      [] partcls = "Pointer" -> <<"TypeQualifier", "Pointer", "Identifier">>
      [] partcls = "Identifier" -> <<>>

\* typedecl.parse: the while loop, with the for/else over next_partcls.
RECURSIVE parseLoop(_, _, _)
parseLoop(tokens, next_partcls, parts) ==
    IF tokens = <<>> THEN Ok(parts)
    ELSE IF Head(tokens) \in IGNORE_TOKEN
         THEN parseLoop(Tail(tokens), next_partcls, parts)
    ELSE LET hits == {i \in 1..Len(next_partcls) :
                         match(next_partcls[i], tokens) > 0}
         IN IF hits = {} THEN Raise("ValueError")
            ELSE LET first == CHOOSE i \in hits : \A j \in hits : i <= j
                     partcls == next_partcls[first]
                     count == match(partcls, tokens)
                 IN parseLoop(DropFirst(tokens, count), allowafter(partcls),
                              Append(parts,
                                     TypePart(partcls, TakeFirst(tokens, count))))

typedecl_parse(tokens) == parseLoop(tokens, <<"TypeSpecifier", "TypeQualifier">>, <<>>)

\* TypeDecl.__init__: the constructed object, or the exception it raises.
TypeDecl(txt) ==
    LET parsed == typedecl_parse(clex(txt))
    IN IF parsed.exc # "none" THEN Raise("ValueError")
       ELSE LET parts == parsed.val
            IN IF parts = <<>> THEN Raise("IndexError")
               ELSE IF parts[Len(parts)].cls = "Identifier"
                    THEN Ok([typespec |-> TakeFirst(parts, Len(parts) - 1),
                             identifier |-> parts[Len(parts)]])
                    ELSE Ok([typespec |-> parts, identifier |-> None])

\* isinstance(part, typedecl.<name>)
isinstance(part, name) ==
    IF name \notin TypedeclNames THEN Raise("AttributeError")
    ELSE Ok(part.cls = name)

(***************************************************************************)
(* fundecl.py                                                              *)
(***************************************************************************)
\* FUNDECLRE.fullmatch(decl) for ([^;]+)\(([^)]*)\);? : the two groups, the
\* first one greedy.
FUNDECLRE(txt) ==
    LET n == Len(txt)
        close == IF n >= 1 /\ txt[n] = ")" THEN n
                 ELSE IF n >= 2 /\ txt[n] = ";" /\ txt[n - 1] = ")" THEN n - 1
                 ELSE 0
        opens == {i \in 2..(close - 1) :
                     /\ txt[i] = "("
                     /\ \A k \in 1..(i - 1) : txt[k] # ";"
                     /\ \A k \in (i + 1)..(close - 1) : txt[k] # ")"}
    IN IF opens = {} THEN [matched |-> FALSE, group1 |-> <<>>, group2 |-> <<>>]
       ELSE LET open == CHOOSE i \in opens : \A j \in opens : j <= i
            IN [matched |-> TRUE,
                group1 |-> SubSeq(txt, 1, open - 1),
                group2 |-> SubSeq(txt, open + 1, close - 1)]

\* str.split(sep) for a one-character sep
RECURSIVE split(_, _)
split(txt, sep) ==
    LET here == {i \in 1..Len(txt) : txt[i] = sep}
    IN IF here = {} THEN <<txt>>
       ELSE LET i == CHOOSE k \in here : \A j \in here : k <= j
            IN <<SubSeq(txt, 1, i - 1)>> \o split(DropFirst(txt, i), sep)

\* The loops at "only the last parameter could be an ellipsis" and "only the
\* first parameter could be a SYS_* constant": Ok(FALSE) when the loop ends
\* without raising.
RECURSIVE lone_part_check(_, _)
lone_part_check(params, name) ==
    IF params = <<>> THEN Ok(FALSE)
    ELSE LET param == Head(params)
         IN IF Len(param.typespec) = 1
            THEN LET isin == isinstance(param.typespec[1], name)
                 IN IF isin.exc # "none" THEN isin
                    ELSE IF isin.val THEN Raise("ValueError")
                    ELSE lone_part_check(Tail(params), name)
            ELSE lone_part_check(Tail(params), name)

\* has_sys_constant, with the short-circuit evaluation of "and"
has_sys_constant(param_list) ==
    IF Len(param_list) > 0 /\ Len(param_list[1].typespec) = 1
    THEN isinstance(param_list[1].typespec[1], "SYSConstant")
    ELSE Ok(FALSE)

\* "If param_list is ["void"] -> empty param_list"
void_params(param_list) ==
    IF /\ Len(param_list) = 1
       /\ Len(param_list[1].typespec) = 1
       /\ isinstance(param_list[1].typespec[1], "TypeSpecifier").val
       /\ param_list[1].typespec[1].tokens = <<<<"v", "o", "i", "d">>>>
    THEN <<>>
    ELSE param_list

FunDecl(name, return_type, param_list) ==
    [cls |-> "FunDecl", name |-> name, return_type |-> return_type,
     param_list |-> param_list]

SysFunDecl(name, return_type, param_list) ==
    [cls |-> "SysFunDecl", name |-> name, return_type |-> return_type,
     param_list |-> param_list]

\* fundecl.parse, from the reconciliation of name and pseudo-constant on
fundecl_reconcile(name, return_type, param_list) ==
    LET is_syscall == (name = <<"s", "y", "s", "c", "a", "l", "l">>)
        has == has_sys_constant(param_list)
    IN IF has.exc # "none" THEN has
       ELSE IF is_syscall # has.val THEN Raise("ValueError")
       ELSE IF is_syscall
            THEN Ok(SysFunDecl(DropFirst(param_list[1].typespec[1].tokens[1], 4),
                               return_type, DropFirst(param_list, 1)))
            ELSE Ok(FunDecl(name, return_type, param_list))

\* fundecl.parse, from the ellipsis and SYS_* placement loops on
fundecl_placement(name, return_type, param_list) ==
    LET ellipsis == lone_part_check(
                        TakeFirst(param_list, Len(param_list) - 1),
                        "CEllipsis")
        sysconst == lone_part_check(DropFirst(param_list, 1), "SYSConstant")
    IN IF ellipsis.exc # "none" THEN ellipsis
       ELSE IF sysconst.exc # "none" THEN sysconst
       ELSE fundecl_reconcile(name, return_type, param_list)

\* fundecl.parse, from "Separate return type from name" on
fundecl_name(left_part, parsed_params) ==
    IF left_part.identifier = None THEN Raise("ValueError")
    ELSE fundecl_placement(left_part.identifier.tokens[1],
                           [left_part EXCEPT !.identifier = None],
                           void_params(parsed_params))

\* fundecl.parse, from the end of the try statement on: made holds the
\* outcomes of the TypeDecl constructions, the left part first; the first
\* one that raised ends the try statement.
fundecl_try(made) ==
    LET failed == {i \in 1..Len(made) : made[i].exc # "none"}
    IN IF failed # {}
       THEN LET i == CHOOSE k \in failed : \A j \in failed : k <= j
            IN IF made[i].exc = "ValueError" THEN Raise("ValueError")
               ELSE made[i]
       ELSE fundecl_name(made[1].val,
                         [i \in 1..(Len(made) - 1) |-> made[i + 1].val])

\* The list comprehension over match.group(2).split(',')
fundecl_params(segments) ==
    [i \in 1..Len(segments) |-> TypeDecl(segments[i])]

\* fundecl.parse, from the test of the match on
fundecl_match(m) ==
    IF ~m.matched THEN Raise("ValueError")
    ELSE fundecl_try(<<TypeDecl(m.group1)>>
                        \o fundecl_params(split(m.group2, ",")))

\* fundecl.parse
fundecl_parse(txt) == fundecl_match(FUNDECLRE(txt))
(***************************************************************************)
(* c_output.py                                                             *)
(***************************************************************************)
SPECIAL_NAMES == {[key |-> <<"a", "r", "g", "v">>, from |-> <<"C", "H", "A", "R", "_", "P", "P">>, to |-> <<"A", "R", "G", "V">>],
                  [key |-> <<"e", "n", "v", "p">>, from |-> <<"C", "H", "A", "R", "_", "P", "P">>, to |-> <<"E", "N", "V", "P">>]}

\* str(size) for size in (8, 16, 32, 64)
SpecialIntSizes == {<<"8">>, <<"1", "6">>, <<"3", "2">>, <<"6", "4">>}

\* The dict SPECIAL_INTS as its set of items.
SPECIAL_INTS ==
    {[key |-> <<"s", "i", "z", "e", "_", "t">>, value |-> <<"S", "I", "Z", "E", "_", "T">>],
     [key |-> <<"s", "s", "i", "z", "e", "_", "t">>, value |-> <<"S", "S", "I", "Z", "E", "_", "T">>]}
    \cup UNION {
        {[key |-> <<"i", "n", "t">> \o size \o <<"_", "t">>, value |-> <<"I", "N", "T">> \o size],
         [key |-> <<"s">> \o size, value |-> <<"I", "N", "T">> \o size],
         [key |-> <<"_", "_", "s">> \o size, value |-> <<"I", "N", "T">> \o size],
         [key |-> <<"u", "i", "n", "t">> \o size \o <<"_", "t">>, value |-> <<"U", "I", "N", "T">> \o size],
         [key |-> <<"u">> \o size, value |-> <<"U", "I", "N", "T">> \o size],
         [key |-> <<"_", "_", "u">> \o size, value |-> <<"U", "I", "N", "T">> \o size]}
        : size \in SpecialIntSizes}

\* SPECIAL_INTS.keys()
SPECIAL_INTS_keys == {item.key : item \in SPECIAL_INTS}

\* SPECIAL_INTS[key]
SPECIAL_INTS_get(key) == (CHOOSE item \in SPECIAL_INTS : item.key = key).value

\* A local variable still holding None where it otherwise holds a str.
Unset == <<>>

\* str.upper() on the lowercase letters
UpperOf == [c \in LowerChars |->
    CASE c = "a" -> "A" [] c = "b" -> "B" [] c = "c" -> "C" [] c = "d" -> "D"
      [] c = "e" -> "E" [] c = "f" -> "F" [] c = "g" -> "G" [] c = "h" -> "H"
      [] c = "i" -> "I" [] c = "j" -> "J" [] c = "k" -> "K" [] c = "l" -> "L"
      [] c = "m" -> "M" [] c = "n" -> "N" [] c = "o" -> "O" [] c = "p" -> "P"
      [] c = "q" -> "Q" [] c = "r" -> "R" [] c = "s" -> "S" [] c = "t" -> "T"
      [] c = "u" -> "U" [] c = "v" -> "V" [] c = "w" -> "W" [] c = "x" -> "X"
      [] c = "y" -> "Y" [] c = "z" -> "Z"]

upper(s) == [i \in 1..Len(s) |-> IF s[i] \in LowerChars THEN UpperOf[s[i]] ELSE s[i]]

\* 'P' * n
RECURSIVE repeatP(_)
repeatP(n) == IF n <= 0 THEN <<>> ELSE <<"P">> \o repeatP(n - 1)

\* The while loop counting the trailing Pointer parts of clean; clean[-1 - k]
\* raises IndexError once 1 + k exceeds len(clean).
RECURSIVE count_pointers(_, _)
count_pointers(clean, pointercount) ==
    IF 1 + pointercount > Len(clean) THEN Raise("IndexError")
    ELSE IF clean[Len(clean) - pointercount].cls = "Pointer"
         THEN count_pointers(clean, pointercount + 1)
         ELSE Ok(pointercount)

\* The match statement over the tokens of spec[0]; st holds the locals base,
\* signedness and size.
RECURSIVE integral_scan(_, _)
integral_scan(tokens, st) ==
    IF tokens = <<>> THEN Ok(st)
    ELSE LET token == Head(tokens)
         IN CASE token \in {<<"c", "h", "a", "r">>, <<"i", "n", "t">>} ->
                   IF st.base # Unset THEN Raise("AssertionError")
                   ELSE integral_scan(Tail(tokens), [st EXCEPT !.base = token])
              [] token \in {<<"s", "i", "g", "n", "e", "d">>, <<"u", "n", "s", "i", "g", "n", "e", "d">>} ->
                   IF st.signedness # Unset THEN Raise("AssertionError")
                   ELSE integral_scan(Tail(tokens),
                                      [st EXCEPT !.signedness = token])
              [] token = <<"s", "h", "o", "r", "t">> ->
                   IF st.size # Unset \/ st.base # Unset
                   THEN Raise("AssertionError")
                   ELSE integral_scan(Tail(tokens),
                                      [st EXCEPT !.size = <<"s", "h", "o", "r", "t">>])
              [] token = <<"l", "o", "n", "g">> ->
                   IF st.base # Unset THEN Raise("AssertionError")
                   ELSE IF st.size = Unset
                        THEN integral_scan(Tail(tokens),
                                           [st EXCEPT !.size = <<"l", "o", "n", "g">>])
                   ELSE IF st.size # <<"l", "o", "n", "g">> THEN Raise("AssertionError")
                   ELSE integral_scan(Tail(tokens),
                                      [st EXCEPT !.size = <<"l", "o", "n", "g", "l", "o", "n", "g">>])
              [] OTHER -> Raise("ValueError")

\* sign: the prefix chosen from signedness
sign_unsigned_only(signedness) ==
    IF signedness = <<"u", "n", "s", "i", "g", "n", "e", "d">> THEN <<"U">> ELSE <<>>

sign_prefix(signedness) ==
    IF signedness # Unset
    THEN (IF signedness = <<"u", "n", "s", "i", "g", "n", "e", "d">> THEN <<"U">> ELSE <<"S">>)
    ELSE <<>>

\* The integral branch: scan, then combine sign, base and size.
integral(spec) ==
    LET scanned == integral_scan(spec[1].tokens,
                      [base |-> Unset, signedness |-> Unset, size |-> Unset])
    IN IF scanned.exc # "none" THEN scanned
       ELSE LET st == scanned.val
                sign == sign_prefix(st.signedness)
                base == IF st.base = Unset THEN <<"i", "n", "t">> ELSE st.base
            IN IF base = <<"c", "h", "a", "r">>
               THEN (IF st.size # Unset THEN Raise("AssertionError")
                     ELSE Ok(sign \o <<"C", "H", "A", "R">>))
               ELSE IF st.size = Unset THEN Ok(sign \o <<"I", "N", "T">>)
               ELSE Ok(sign \o upper(st.size))

\* base_tag without the pointer assertion of the void branch.
base_tag_void_unchecked(spec, pointercount) ==
    LET first == spec[1].tokens[1]
    IN IF first \in TAG_SPECIFIERS
       THEN (IF Len(spec) # 1 THEN Raise("AssertionError") ELSE Ok(<<"U", "N", "K", "N", "O", "W", "N">>))
       ELSE IF first \in SPECIAL_INTS_keys
       THEN (IF Len(spec) # 1 THEN Raise("AssertionError")
             ELSE Ok(SPECIAL_INTS_get(first)))
       ELSE IF TYPE_SPECIFIERS_EXTRA_RE(first) \/ first \in TYPE_SPECIFIERS_EXTRA
       THEN (IF Len(spec) # 1 THEN Raise("AssertionError") ELSE Ok(<<"U", "N", "K", "N", "O", "W", "N">>))
       ELSE IF first = <<"v", "o", "i", "d">>
       THEN (IF Len(spec) # 1 THEN Raise("AssertionError") ELSE Ok(<<"V", "O", "I", "D">>))
       ELSE integral(spec)

\* The if/elif chain classifying spec: the tag before the pointer suffix.
base_tag(spec, pointercount) ==
    LET first == spec[1].tokens[1]
    IN IF first \in TAG_SPECIFIERS
       THEN (IF Len(spec) # 1 THEN Raise("AssertionError") ELSE Ok(<<"U", "N", "K", "N", "O", "W", "N">>))
       ELSE IF first \in SPECIAL_INTS_keys
       THEN (IF Len(spec) # 1 THEN Raise("AssertionError")
             ELSE Ok(SPECIAL_INTS_get(first)))
       ELSE IF TYPE_SPECIFIERS_EXTRA_RE(first) \/ first \in TYPE_SPECIFIERS_EXTRA
       THEN (IF Len(spec) # 1 THEN Raise("AssertionError") ELSE Ok(<<"U", "N", "K", "N", "O", "W", "N">>))
       ELSE IF first = <<"v", "o", "i", "d">>
       THEN (IF Len(spec) # 1 \/ ~(pointercount > 0)
             THEN Raise("AssertionError") ELSE Ok(<<"V", "O", "I", "D">>))
       ELSE integral(spec)

\* The pointer suffix
pointer_suffix_single(simplified, pointercount) ==
    IF 0 < pointercount THEN simplified \o <<"_", "P">> ELSE simplified

pointer_suffix(simplified, pointercount) ==
    IF 0 < pointercount
    THEN (IF simplified = <<"U", "N", "K", "N", "O", "W", "N">> THEN simplified \o <<"_", "P">>
          ELSE simplified \o <<"_">> \o repeatP(pointercount))
    ELSE simplified

\* special_name without the comparison of the computed tag.
special_name_any_tag(simplified, identifier) ==
    IF /\ identifier # None
       /\ \E item \in SPECIAL_NAMES : item.key = identifier.tokens[1]
    THEN (CHOOSE item \in SPECIAL_NAMES : item.key = identifier.tokens[1]).to
    ELSE simplified

\* The parameter-name override
special_name(simplified, identifier) ==
    IF /\ identifier # None
       /\ \E item \in SPECIAL_NAMES :
             item.key = identifier.tokens[1] /\ item.from = simplified
    THEN (CHOOSE item \in SPECIAL_NAMES :
             item.key = identifier.tokens[1] /\ item.from = simplified).to
    ELSE simplified

\* The filter() keeping the TypeSpecifier and Pointer parts
RECURSIVE clean_parts(_)
clean_parts(typespec) ==
    IF typespec = <<>> THEN <<>>
    ELSE IF Head(typespec).cls \in {"TypeSpecifier", "Pointer"}
         THEN <<Head(typespec)>> \o clean_parts(Tail(typespec))
         ELSE clean_parts(Tail(typespec))

\* c_output.simplify
simplify(d) ==
    LET clean == clean_parts(d.typespec)
        counted == count_pointers(clean, 0)
    IN IF counted.exc # "none" THEN counted
       ELSE LET pointercount == counted.val
                spec == IF 0 < pointercount
                        THEN TakeFirst(clean, Len(clean) - pointercount)
                        ELSE clean
                base == base_tag(spec, pointercount)
            IN IF base.exc # "none" THEN base
               ELSE Ok(special_name(pointer_suffix(base.val, pointercount),
                                    d.identifier))

(***************************************************************************)
(* typedecl.py and fundecl.py: the textual renderings                      *)
(***************************************************************************)
\* TypePart.__repr__
TypePart_repr(part) == join(part.tokens, <<" ">>)

\* TypeDecl.__repr__ without the identifier.
TypeDecl_repr_typespec_only(d) ==
    join([i \in 1..Len(d.typespec) |-> TypePart_repr(d.typespec[i])], <<" ">>)

\* TypeDecl.__repr__
TypeDecl_repr(d) ==
    LET r == join([i \in 1..Len(d.typespec) |-> TypePart_repr(d.typespec[i])],
                  <<" ">>)
    IN IF d.identifier # None THEN r \o <<" ">> \o TypePart_repr(d.identifier)
       ELSE r

(***************************************************************************)
(* manpages.py and musl.py                                                 *)
(***************************************************************************)
\* SIZERE.match at the head of txt, the pattern (\w+)\s*\[.*?\] : the length
\* of the match, 0 when there is none.
SIZERE_match(txt) ==
    LET w == RunLength(txt, WordChars)
        s == RunLength(DropFirst(txt, w), SpaceChars)
        rest == DropFirst(txt, w + s)
        closes == {i \in 2..Len(rest) :
                      /\ rest[i] = "]"
                      /\ \A k \in 2..(i - 1) : rest[k] # "\n"}
    IN IF w = 0 \/ rest = <<>> \/ Head(rest) # "[" \/ closes = {} THEN 0
       ELSE w + s + (CHOOSE i \in closes : \A j \in closes : i <= j)

\* manpages.SIZERE.sub(r"\1*", txt)
RECURSIVE SIZERE_sub(_)
SIZERE_sub(txt) ==
    IF txt = <<>> THEN <<>>
    ELSE IF SIZERE_match(txt) > 0
         THEN TakeFirst(txt, RunLength(txt, WordChars)) \o <<"*">>
                \o SIZERE_sub(DropFirst(txt, SIZERE_match(txt)))
         ELSE <<Head(txt)>> \o SIZERE_sub(Tail(txt))

\* str.strip()
RECURSIVE strip(_)
strip(txt) ==
    IF txt = <<>> THEN txt
    ELSE IF Head(txt) \in SpaceChars THEN strip(Tail(txt))
    ELSE IF txt[Len(txt)] \in SpaceChars THEN strip(TakeFirst(txt, Len(txt) - 1))
    ELSE txt

(***************************************************************************)
(* cache.py                                                                *)
(***************************************************************************)
\* hashlib.md5(path.encode()).hexdigest(): distinct for distinct paths.
md5(path) == <<"md5", path>>

\* The bytes GitHub serves for a file at version ver.
Bytes(ver) == [kind |-> "bytes", ver |-> ver]

\* bytes.decode(), and what reading a file in mode "rt" gives
decode(data) == [data EXCEPT !.kind = "str"]

\* No file at this path of CACHE_DIR.
NoFile == [present |-> FALSE, ver |-> 0, old |-> FALSE]

\* No call yet.
NoCall == [called |-> FALSE, invalidate |-> FALSE, binary |-> FALSE,
           data |-> Bytes(0), served |-> 0, downloaded |-> FALSE]

(***************************************************************************)
(* The inputs: prototype strings handed to fundecl.parse, declaration      *)
(* strings handed to TypeDecl and then to simplify, the declarations that  *)
(* musl.find_decls finds in a header, and the paths fetched from GitHub.   *)
(***************************************************************************)
LeftTexts == {<<"l", "o", "n", "g", " ", "s", "y", "s", "c", "a", "l", "l">>, <<"i", "n", "t", " ", "f", "o", "o">>, <<"i", "n", "t">>, <<"a", "s", "m", "l", "i", "n", "k", "a", "g", "e", " ", "l", "o", "n", "g", " ", "s", "y", "s", "_", "r", "e", "a", "d">>,
              <<" ">>}

ParamTexts == {<<>>, <<"v", "o", "i", "d">>, <<"v", "o", "i", "d", " ", "x">>, <<"i", "n", "t", " ", "a">>, <<".", ".", ".">>, <<"S", "Y", "S", "_", "r", "e", "a", "d">>,
               <<"c", "h", "a", "r", " ", "*", "b", "u", "f">>, <<"c", "o", "n", "s", "t", " ", "v", "o", "i", "d">>}

Closers == {<<")">>, <<")", ";">>, <<>>}

ExamplePrototypes ==
    {<<"l", "o", "n", "g", " ", "s", "y", "s", "c", "a", "l", "l", "(", "S", "Y", "S", "_", "r", "e", "a", "d", ",", " ", "i", "n", "t", " ", "f", "d", ",", " ", "c", "h", "a", "r", " ", "*", "b", "u", "f", ",", " ", "s", "i", "z", "e", "_", "t", " ", "c", "o", "u", "n", "t", ")">>,
     <<"l", "o", "n", "g", " ", "s", "y", "s", "_", "r", "e", "a", "d", "(", "u", "n", "s", "i", "g", "n", "e", "d", " ", "i", "n", "t", " ", "f", "d", ",", " ", "c", "h", "a", "r", " ", "*", "b", "u", "f", ",", " ", "s", "i", "z", "e", "_", "t", " ", "c", "o", "u", "n", "t", ")">>,
     <<"l", "o", "n", "g", " ", "r", "e", "a", "d", "(", "S", "Y", "S", "_", "r", "e", "a", "d", ",", " ", "i", "n", "t", " ", "f", "d", ",", " ", "c", "h", "a", "r", " ", "*", "b", "u", "f", ",", " ", "s", "i", "z", "e", "_", "t", " ", "c", "o", "u", "n", "t", ")">>,
     <<"i", "n", "t", " ", "f", "o", "o", "(", "i", "n", "t", " ", "a", ",", " ", ".", ".", ".", ",", " ", "i", "n", "t", " ", "b", ")">>,
     <<"i", "n", "t", " ", "f", "o", "o", "(", "c", "o", "n", "s", "t", " ", "c", "h", "a", "r", " ", "*", "a", ",", " ", "c", "o", "n", "s", "t", " ", "c", "h", "a", "r", " ", "*", "b", ",", " ", ".", ".", ".", ")">>,
     <<"i", "n", "t", " ", "f", "o", "o", "(", "i", "n", "t", " ", "a", ",", " ", "S", "Y", "S", "_", "f", "o", "o", ")">>,
     <<"i", "n", "t", " ", "f", "o", "o", "(", "c", "o", "n", "s", "t", " ", "c", "h", "a", "r", " ", "*", "a", ",", " ", "i", "n", "t", " ", "b", ",", " ", "i", "n", "t", " ", "c", ")">>}

Prototypes ==
    {left \o <<"(">> \o join(params, <<",", " ">>) \o closer :
        left \in LeftTexts,
        params \in UNION {[1..n -> ParamTexts] : n \in 1..MaxParams},
        closer \in Closers}
    \cup ExamplePrototypes

IntegralWords == {<<"u", "n", "s", "i", "g", "n", "e", "d">>, <<"s", "i", "g", "n", "e", "d">>, <<"c", "h", "a", "r">>, <<"i", "n", "t">>, <<"s", "h", "o", "r", "t">>, <<"l", "o", "n", "g">>}

OtherSpecifiers == {<<"v", "o", "i", "d">>, <<"s", "t", "r", "u", "c", "t", " ", "f", "o", "o">>, <<"s", "i", "z", "e", "_", "t">>, <<"s", "s", "i", "z", "e", "_", "t">>, <<"u", "3", "2">>,
                    <<"i", "n", "t", "6", "4", "_", "t">>, <<"u", "i", "n", "t", "8", "_", "t">>, <<"_", "_", "s", "3", "2">>, <<"f", "d", "_", "s", "e", "t">>, <<"p", "i", "d", "_", "t">>,
                    <<"d", "o", "u", "b", "l", "e">>}

SpecifierTexts ==
    {join(words, <<" ">>) :
        words \in UNION {[1..n -> IntegralWords] : n \in 1..MaxSpecifiers}}
    \cup OtherSpecifiers

QualifierTexts == {<<>>, <<"c", "o", "n", "s", "t", " ">>}

IdentifierTexts == {<<>>, <<" ", "a", "r", "g", "v">>, <<" ", "x">>}

ExampleDecls ==
    {<<"c", "o", "n", "s", "t", " ", "c", "h", "a", "r", " ", "*", " ", "c", "o", "n", "s", "t", " ", "*", " ", "a", "r", "g", "v">>, <<"c", "h", "a", "r", " ", "*", "*", "e", "n", "v", "p">>, <<"u", "n", "s", "i", "g", "n", "e", "d", " ", "s", "i", "g", "n", "e", "d", " ", "i", "n", "t">>,
     <<"l", "o", "n", "g", " ", "l", "o", "n", "g", " ", "l", "o", "n", "g">>, <<"l", "o", "n", "g", " ", "l", "o", "n", "g", " ", "i", "n", "t">>, <<"c", "h", "a", "r", " ", "_", "_", "u", "s", "e", "r", " ", "*", "b", "u", "f">>, <<"c", "o", "n", "s", "t">>,
     <<"c", "o", "n", "s", "t", " ", "*">>, <<>>, <<"v", "o", "i", "d", " ", "*", " ", "c", "o", "n", "s", "t", " ", "*">>, <<"i", "n", "t", " ", "*", " ", "c", "o", "n", "s", "t", " ", "i", "n", "t">>, <<"s", "3", "2">>}

\* Declarations around void, the name overrides, the tag keywords, the
\* tokens after a pointer or an identifier, and the ignorable tokens.
MoreDecls ==
    {<<"v", "o", "i", "d", " ", "i", "n", "t">>, <<"v", "o", "i", "d", " ", "i", "n", "t", " ", "*">>, <<"v", "o", "i", "d", " ", "*", " ", "c", "o", "n", "s", "t", " ", "i", "n", "t">>, <<"v", "o", "i", "d", " ", "c", "h", "a", "r", " ", "*", " ", "x">>,
     <<"v", "o", "i", "d", " ", "*", " ", "i", "n", "t">>, <<"c", "h", "a", "r", " ", "*", " ", "s", "t", "r", "u", "c", "t">>, <<"i", "n", "t", " ", "*", " ", "s", "i", "z", "e", "_", "t">>, <<"i", "n", "t", " ", "e", "n", "v", "p">>,
     <<"c", "h", "a", "r", " ", "*", " ", "e", "n", "v", "p">>, <<"c", "h", "a", "r", " ", "*", "*", " ", "x">>, <<"s", "t", "r", "u", "c", "t">>, <<"s", "t", "r", "u", "c", "t", " ", "*">>, <<"c", "o", "n", "s", "t", " ", "s", "t", "r", "u", "c", "t">>,
     <<"s", "t", "r", "u", "c", "t", " ", "_", "_", "u", "s", "e", "r", " ", "f", "o", "o">>, <<"s", "t", "r", "u", "c", "t", " ", "f", "o", "o", " ", "_", "_", "u", "s", "e", "r">>, <<"e", "n", "u", "m", " ", "_", "_", "u", "s", "e", "r">>, <<"i", "n", "t", " ", "x", " ", "y">>,
     <<"i", "n", "t", " ", "x", " ", "*">>, <<"i", "n", "t", " ", "x", " ", "_", "_", "u", "s", "e", "r">>, <<"_", "_", "u", "s", "e", "r">>, <<"a", "s", "m", "l", "i", "n", "k", "a", "g", "e", " ", "i", "n", "t", " ", "x">>,
     <<"c", "h", "a", "r", " ", "_", "_", "u", "s", "e", "r", " ", "*", " ", "_", "_", "u", "s", "e", "r", " ", "b", "u", "f">>, <<"u", "n", "i", "o", "n", " ", "u", " ", "*", " ", "p">>, <<"i", "n", "t", " ", "*", " ", "c", "o", "n", "s", "t", " ", "x">>,
     <<"s", "t", "r", "u", "c", "t", " ", ".", ".", ".", " ", "x">>, <<"i", "n", "t", " ", "c", "o", "n", "s", "t", " ", "*", " ", "r", "e", "s", "t", "r", "i", "c", "t", " ", "p">>}

\* A declaration made of each name the simplifier knows as a fixed-width
\* integer, alone or with an identifier.
FixedWidthDecls ==
    {key \o identifier : key \in SPECIAL_INTS_keys, identifier \in {<<>>, <<" ", "x">>}}

Decls ==
    {qualifier \o specifier \o repeat(<<" ", "*">>, pointers) \o identifier :
        qualifier \in QualifierTexts,
        specifier \in SpecifierTexts,
        pointers \in 0..MaxPointers,
        identifier \in IdentifierTexts}
    \cup ExampleDecls \cup MoreDecls \cup FixedWidthDecls

\* What re.findall returns in musl.find_decls for the wrapper foo: texts of
\* the shape of FUNCREFMT.
FoundTexts == {<<"i", "n", "t", " ", "f", "o", "o", "(", "v", "o", "i", "d", ")", ";">>, <<"\n", "i", "n", "t", " ", "f", "o", "o", "(", ")", ";">>, <<"i", "n", "t", " ", "f", "o", "o", "(", "i", "n", "t", " ", "a", ")", ";">>,
               <<"i", "n", "t", " ", "f", "o", "o", "(", "i", "n", "t", " ", "f", "d", "[", "2", "]", ")", ";">>, <<"i", "n", "t", " ", "f", "o", "o", "(", "c", "o", "n", "s", "t", " ", "c", "h", "a", "r", " ", "*", "a", ")", " ", ";">>,
               <<"\n", "i", "n", "t", " ", "f", "o", "o", "(", "c", "o", "n", "s", "t", " ", "c", "h", "a", "r", " ", "*", "a", ")", ";">>}

Founds == UNION {[1..n -> FoundTexts] : n \in 0..MaxDecls}

Paths == {<<"a", "r", "c", "h", "/", "x", "8", "6", "/", "e", "n", "t", "r", "y", "/", "s", "y", "s", "c", "a", "l", "l", "s", "/", "s", "y", "s", "c", "a", "l", "l", "_", "6", "4", ".", "t", "b", "l">>,
          <<"i", "n", "c", "l", "u", "d", "e", "/", "l", "i", "n", "u", "x", "/", "s", "y", "s", "c", "a", "l", "l", "s", ".", "h">>}

Hashes == {md5(path) : path \in Paths}

(***************************************************************************)
(* The state machine: a process exercises one entry point.                 *)
(***************************************************************************)
\* Nothing computed yet.
\* Pieces of C text: whitespace, word runs, the tokens of OTHER_TOKENS, parts
\* of them, and other symbols.
Pieces == {<<" ">>, <<"\n">>, <<"a">>, <<"_", "1">>, <<".">>, <<".", ".", ".">>, <<"[">>, <<"]">>, <<"*">>,
           <<"[", "[", "n", "o", "r", "e", "t", "u", "r", "n", "]", "]">>, <<"[", "[", "d", "e", "p", "r", "e", "c", "a", "t", "e", "d", "]", "]">>, <<"[", "[", "n", "o", "r", "e", "t", "u", "r", "n">>}

\* The texts made of at most MaxPieces pieces.
LexTexts == {join(pieces, <<>>) : pieces \in UNION {[1..n -> Pieces] : n \in 0..MaxPieces}}

Pending == [exc |-> "pending", val |-> None]

pipeline_vars == <<text, decl, result, rebuilt>>

musl_vars == <<found, ret>>

cache_vars == <<remote, disk, FILE_CACHE, last>>

\* The variables of the entry points this process does not exercise.
NoPipeline == text = <<>> /\ decl = Pending /\ rebuilt = Pending

NoMusl == found = <<>> /\ ret = <<>>

NoCache ==
    /\ remote = 1
    /\ disk = [h \in Hashes |-> NoFile]
    /\ FILE_CACHE = <<>>
    /\ last = NoCall

InitPipeline ==
    /\ \/ op = "fundecl.parse" /\ text \in Prototypes
       \/ op = "simplify" /\ text \in Decls
    /\ pc = "start"
    /\ decl = Pending
    /\ result = Pending
    /\ rebuilt = Pending
    /\ NoMusl
    /\ NoCache

\* musl.find_decls after re.findall: text is the content of the header, found
\* the declarations of the wrapper in it; an empty list also stands for a
\* header that does not exist.
InitMusl ==
    /\ op = "musl.find_decls"
    /\ pc = "start"
    /\ found \in Founds
    /\ text = join(found, <<>>)
    /\ ret = <<>>
    /\ result = Pending
    /\ decl = Pending
    /\ rebuilt = Pending
    /\ NoCache

\* A fresh process: the runtime cache is empty, CACHE_DIR holds what earlier
\* processes left there.
InitCache ==
    /\ op = "cache"
    /\ pc = "start"
    /\ remote = 1
    /\ disk \in [Hashes -> {NoFile, [present |-> TRUE, ver |-> 1, old |-> FALSE],
                            [present |-> TRUE, ver |-> 1, old |-> TRUE]}]
    /\ FILE_CACHE = <<>>
    /\ last = NoCall
    /\ result = Pending
    /\ NoPipeline
    /\ NoMusl

\* clex(text) on its own.
InitLex ==
    /\ op = "clex"
    /\ pc = "start"
    /\ text \in LexTexts
    /\ decl = Pending
    /\ result = Pending
    /\ rebuilt = Pending
    /\ NoMusl
    /\ NoCache

Init == InitPipeline \/ InitMusl \/ InitCache \/ InitLex

\* fundecl.parse(text)
ParseFunDecl ==
    /\ pc = "start"
    /\ op = "fundecl.parse"
    /\ result' = fundecl_parse(text)
    /\ pc' = "done"
    /\ UNCHANGED <<text, op, decl, rebuilt, musl_vars, cache_vars>>

\* typedecl.TypeDecl(text)
MakeTypeDecl ==
    /\ pc = "start"
    /\ op = "simplify"
    /\ decl' = TypeDecl(text)
    /\ pc' = "made"
    /\ UNCHANGED <<text, op, result, rebuilt, musl_vars, cache_vars>>

\* c_output.simplify(decl)
Simplify ==
    /\ pc = "made"
    /\ decl.exc = "none"
    /\ result' = simplify(decl.val)
    /\ pc' = "done"
    /\ UNCHANGED <<text, op, decl, rebuilt, musl_vars, cache_vars>>

\* typedecl.TypeDecl(repr(decl))
Rebuild ==
    /\ pc = "made"
    /\ decl.exc = "none"
    /\ rebuilt' = TypeDecl(TypeDecl_repr(decl.val))
    /\ pc' = "rebuilt"
    /\ UNCHANGED <<text, op, decl, result, musl_vars, cache_vars>>

\* The try statement of the loop: ret.add of the parsed declaration, a
\* ValueError passed over, any other exception leaving find_decls.
try_add(parsed) ==
    \/ /\ parsed.exc = "none"
       /\ ret' = Append(ret, parsed.val)
       /\ found' = Tail(found)
       /\ UNCHANGED <<pc, result>>
    \/ /\ parsed.exc = "ValueError"
       /\ found' = Tail(found)
       /\ UNCHANGED <<pc, result, ret>>
    \/ /\ parsed.exc \notin {"none", "ValueError"}
       /\ result' = parsed
       /\ pc' = "done"
       /\ UNCHANGED <<found, ret>>

\* musl.find_decls: one turn of the for loop over the found declarations.
\* FunDecl defines no __eq__, so the set ret keeps one element per parsed
\* declaration; it is kept here in the order of the additions.
FindDeclsLoop ==
    /\ op = "musl.find_decls"
    /\ pc = "start"
    /\ found # <<>>
    /\ try_add(fundecl_parse(strip(SIZERE_sub(Head(found)))))
    /\ UNCHANGED <<text, op, decl, rebuilt, cache_vars>>

\* musl.find_decls: return ret
FindDeclsReturn ==
    /\ op = "musl.find_decls"
    /\ pc = "start"
    /\ found = <<>>
    /\ result' = Ok(ret)
    /\ pc' = "done"
    /\ UNCHANGED <<text, op, decl, rebuilt, musl_vars, cache_vars>>

\* cache.get_file_from_github(project, branch, path, invalidate, binary)
get_file_from_github(path, invalidate, binary) ==
    /\ op = "cache"
    /\ LET h == md5(path)
           hit == h \in DOMAIN FILE_CACHE /\ binary \in DOMAIN FILE_CACHE[h]
           use_disk == disk[h].present /\ ~invalidate /\ ~disk[h].old
           fetched == IF use_disk THEN Bytes(disk[h].ver) ELSE Bytes(remote)
           data == IF hit THEN FILE_CACHE[h][binary]
                   ELSE IF binary THEN fetched ELSE decode(fetched)
           entry == IF h \in DOMAIN FILE_CACHE THEN FILE_CACHE[h] ELSE <<>>
       IN /\ disk' = IF hit \/ use_disk THEN disk
                     ELSE [disk EXCEPT ![h] = [present |-> TRUE, ver |-> remote,
                                               old |-> FALSE]]
          /\ FILE_CACHE' = IF hit THEN FILE_CACHE
                           ELSE (h :> ((binary :> data) @@ entry)) @@ FILE_CACHE
          /\ last' = [called |-> TRUE, invalidate |-> invalidate,
                      binary |-> binary, data |-> data, served |-> remote,
                      downloaded |-> ~hit /\ ~use_disk]
    /\ UNCHANGED <<op, pc, remote, pipeline_vars, musl_vars>>

GetFile ==
    \E path \in Paths, invalidate \in BOOLEAN, binary \in BOOLEAN :
        get_file_from_github(path, invalidate, binary)

\* The file changes on GitHub.
RemoteChanges ==
    /\ op = "cache"
    /\ remote < MaxVersions
    /\ remote' = remote + 1
    /\ UNCHANGED <<op, pc, disk, FILE_CACHE, last, pipeline_vars, musl_vars>>

\* CACHE_TIMEOUT passes since a cached file was written.
CacheAges ==
    /\ op = "cache"
    /\ \E h \in Hashes :
          /\ disk[h].present
          /\ ~disk[h].old
          /\ disk' = [disk EXCEPT ![h].old = TRUE]
    /\ UNCHANGED <<op, pc, remote, FILE_CACHE, last, pipeline_vars, musl_vars>>

\* clex(text)
Lex ==
    /\ op = "clex"
    /\ pc = "start"
    /\ result' = Ok(clex(text))
    /\ pc' = "done"
    /\ UNCHANGED <<text, op, decl, rebuilt, musl_vars, cache_vars>>

Next ==
    \/ ParseFunDecl
    \/ MakeTypeDecl
    \/ Simplify
    \/ Rebuild
    \/ FindDeclsLoop
    \/ FindDeclsReturn
    \/ GetFile
    \/ RemoteChanges
    \/ CacheAges
    \/ Lex

Spec == Init /\ [][Next]_vars

(***************************************************************************)
(* Vocabulary of the properties, read off the input string.                *)
(***************************************************************************)
NotIgnored(token) == token \notin IGNORE_TOKEN

\* The tokens of a text that the classifier looks at.
Words(txt) == SelectSeq(clex(txt), NotIgnored)

\* The text is a declaration of the restricted grammar.
IsDeclaration(txt) == TypeDecl(txt).exc = "none"

\* The text is the single token SYS_<name>.
IsPseudoConstant(txt) ==
    /\ Len(Words(txt)) = 1
    /\ StartsWith(Words(txt)[1], <<"S", "Y", "S", "_">>)
    /\ Len(Words(txt)[1]) > 4

\* The text is the single token "..."
IsEllipsis(txt) == Words(txt) = <<<<".", ".", ".">>>>

\* The prototype has the outer shape and its left part declares a name.
HasName(txt) ==
    /\ FUNDECLRE(txt).matched
    /\ IsDeclaration(FUNDECLRE(txt).group1)
    /\ TypeDecl(FUNDECLRE(txt).group1).val.identifier # None

NameOf(txt) == TypeDecl(FUNDECLRE(txt).group1).val.identifier.tokens[1]

\* The comma-separated parameter texts of the prototype.
ParamsOf(txt) == split(FUNDECLRE(txt).group2, ",")

ParsedPrototype == pc = "done" /\ op = "fundecl.parse"

Simplified == pc = "done" /\ op = "simplify"

IsSpecifier(part) == part.cls = "TypeSpecifier"

IsPointer(part) == part.cls = "Pointer"

NotQualifier(part) == part.cls # "TypeQualifier"

\* The specifier keywords of the declaration being simplified, in order.
SpecifierWords ==
    LET specs == SelectSeq(decl.val.typespec, IsSpecifier)
    IN [i \in 1..Len(specs) |-> specs[i].tokens[1]]

\* Number of Pointer parts of the declaration.
PointerParts == Len(SelectSeq(decl.val.typespec, IsPointer))

\* Number of Pointer parts after the last specifier of the declaration.
TrailingPointers ==
    LET ts == decl.val.typespec
        specs == {i \in 1..Len(ts) : ts[i].cls = "TypeSpecifier"}
    IN Cardinality({i \in 1..Len(ts) :
                       /\ ts[i].cls = "Pointer"
                       /\ \A j \in specs : j < i})

Count(words, w) == Cardinality({i \in 1..Len(words) : words[i] = w})

IsIntegral(words) ==
    /\ Len(words) >= 1
    /\ \A i \in 1..Len(words) : words[i] \in IntegralWords

\* The conflicts among integral keywords.
Conflicting(words) ==
    \/ Count(words, <<"s", "h", "o", "r", "t">>) >= 1
         /\ Count(words, <<"s", "h", "o", "r", "t">>) + Count(words, <<"l", "o", "n", "g">>) >= 2
    \/ Count(words, <<"s", "i", "g", "n", "e", "d">>) + Count(words, <<"u", "n", "s", "i", "g", "n", "e", "d">>) >= 2
    \/ Count(words, <<"c", "h", "a", "r">>) + Count(words, <<"i", "n", "t">>) >= 2
    \/ Count(words, <<"l", "o", "n", "g">>) >= 3
    \/ \E i, j \in 1..Len(words) :
          /\ i < j
          /\ words[i] \in {<<"c", "h", "a", "r">>, <<"i", "n", "t">>}
          /\ words[j] \in {<<"s", "h", "o", "r", "t">>, <<"l", "o", "n", "g">>}

\* The tag of a rule-abiding integral keyword sequence without "signed".
IntegralTag(words) ==
    (IF Count(words, <<"u", "n", "s", "i", "g", "n", "e", "d">>) = 1 THEN <<"U">> ELSE <<>>)
    \o (IF Count(words, <<"c", "h", "a", "r">>) = 1 THEN <<"C", "H", "A", "R">>
        ELSE IF Count(words, <<"s", "h", "o", "r", "t">>) = 1 THEN <<"S", "H", "O", "R", "T">>
        ELSE IF Count(words, <<"l", "o", "n", "g">>) = 2 THEN <<"L", "O", "N", "G", "L", "O", "N", "G">>
        ELSE IF Count(words, <<"l", "o", "n", "g">>) = 1 THEN <<"L", "O", "N", "G">>
        ELSE <<"I", "N", "T">>)

ClosedBaseTags ==
    {<<"N", "O", "N", "E">>, <<"U", "N", "K", "N", "O", "W", "N">>, <<"V", "O", "I", "D">>, <<"C", "H", "A", "R">>, <<"U", "C", "H", "A", "R">>, <<"S", "H", "O", "R", "T">>, <<"U", "S", "H", "O", "R", "T">>,
     <<"I", "N", "T">>, <<"U", "I", "N", "T">>, <<"L", "O", "N", "G">>, <<"U", "L", "O", "N", "G">>, <<"L", "O", "N", "G", "L", "O", "N", "G">>, <<"U", "L", "O", "N", "G", "L", "O", "N", "G">>,
     <<"I", "8">>, <<"I", "1", "6">>, <<"I", "3", "2">>, <<"I", "6", "4">>, <<"U", "8">>, <<"U", "1", "6">>, <<"U", "3", "2">>, <<"U", "6", "4">>,
     <<"S", "I", "Z", "E", "_", "T">>, <<"S", "S", "I", "Z", "E", "_", "T">>}

(***************************************************************************)
(* Properties.                                                             *)
(***************************************************************************)
\* C1: a prototype named syscall whose first parameter is the single token
\* SYS_<name>, the other parameters being declarations, parses to the
\* syscall-style variant named <name> that stores the parameters after the
\* first.
C1_SyscallStyle ==
    (/\ ParsedPrototype
     /\ HasName(text)
     /\ NameOf(text) = <<"s", "y", "s", "c", "a", "l", "l">>
     /\ IsPseudoConstant(ParamsOf(text)[1])
     /\ \A i \in 2..Len(ParamsOf(text)) : IsDeclaration(ParamsOf(text)[i]))
    => /\ result.exc = "none"
       /\ result.val.cls = "SysFunDecl"
       /\ result.val.name = DropFirst(Words(ParamsOf(text)[1])[1], 4)
       /\ Len(result.val.param_list) = Len(ParamsOf(text)) - 1

\* C2: an accepted prototype is named syscall iff its first parameter is a
\* pseudo-constant; when exactly one holds parse fails; when neither holds
\* and the parameters are declarations, the result is the plain variant with
\* the name and the parameters as parsed.
C2_Reconcile ==
    (ParsedPrototype /\ HasName(text)) =>
        LET is_sys == NameOf(text) = <<"s", "y", "s", "c", "a", "l", "l">>
            has_const == IsPseudoConstant(ParamsOf(text)[1])
            params == ParamsOf(text)
        IN /\ result.exc = "none" => (is_sys <=> has_const)
           /\ (is_sys # has_const) => result.exc # "none"
           /\ (/\ ~is_sys
               /\ ~has_const
               /\ \A i \in 1..Len(params) : IsDeclaration(params[i]))
              => /\ result.exc = "none"
                 /\ result.val.cls = "FunDecl"
                 /\ result.val.name = NameOf(text)
                 /\ \/ Len(result.val.param_list) = Len(params)
                    \/ Len(params) = 1 /\ Words(params[1])[1] = <<"v", "o", "i", "d">>

\* C3: an accepted plain prototype ends with an empty parameter list iff it
\* has exactly one parameter and that parameter is the bare keyword void
\* without an identifier.
C3_VoidOnly ==
    (ParsedPrototype /\ result.exc = "none" /\ result.val.cls = "FunDecl")
    => (Len(result.val.param_list) = 0
        <=> (Len(ParamsOf(text)) = 1 /\ Words(ParamsOf(text)[1]) = <<<<"v", "o", "i", "d">>>>))

\* C4: a prototype with a name other than syscall and an empty parameter
\* text parses to a declaration with zero parameters.
C4_EmptyParams ==
    (/\ ParsedPrototype
     /\ HasName(text)
     /\ NameOf(text) # <<"s", "y", "s", "c", "a", "l", "l">>
     /\ FUNDECLRE(text).group2 = <<>>)
    => result.exc = "none" /\ Len(result.val.param_list) = 0

\* C5: a prototype with an ellipsis among otherwise well-formed parameters
\* is accepted exactly when the ellipsis is the last parameter only, and is
\* then stored as the last parameter.
C5_EllipsisLast ==
    (/\ ParsedPrototype
     /\ HasName(text)
     /\ NameOf(text) # <<"s", "y", "s", "c", "a", "l", "l">>
     /\ \A i \in 1..Len(ParamsOf(text)) :
           IsEllipsis(ParamsOf(text)[i]) \/ IsDeclaration(ParamsOf(text)[i])
     /\ \E i \in 1..Len(ParamsOf(text)) : IsEllipsis(ParamsOf(text)[i]))
    => LET params == ParamsOf(text)
           ellipses == {i \in 1..Len(params) : IsEllipsis(params[i])}
       IN /\ result.exc = "none" <=> ellipses = {Len(params)}
          /\ result.exc = "none" =>
                /\ Len(result.val.param_list) = Len(params)
                /\ result.val.param_list[Len(params)].typespec[1].tokens
                      = <<<<".", ".", ".">>>>

\* C6: a pointerless declaration whose specifiers are integral keywords
\* obeying the rules (no signed) gets the tag computed from all of them.
C6_IntegralTag ==
    (/\ Simplified
     /\ IsIntegral(SpecifierWords)
     /\ ~Conflicting(SpecifierWords)
     /\ Count(SpecifierWords, <<"s", "i", "g", "n", "e", "d">>) = 0
     /\ ~(Count(SpecifierWords, <<"c", "h", "a", "r">>) = 1
          /\ Count(SpecifierWords, <<"s", "h", "o", "r", "t">>) + Count(SpecifierWords, <<"l", "o", "n", "g">>) > 0)
     /\ PointerParts = 0)
    => result.exc = "none" /\ result.val = IntegralTag(SpecifierWords)

\* C7: simplify fails on every declaration whose integral keywords conflict.
C7_ConflictFails ==
    (Simplified /\ IsIntegral(SpecifierWords) /\ Conflicting(SpecifierWords))
    => result.exc # "none"

\* C8: every tag simplify returns is ARGV, ENVP, or a base tag of the closed
\* set optionally followed by a pointer-depth suffix.
C8_ClosedTagSet ==
    (Simplified /\ result.exc = "none")
    => \/ result.val \in {<<"A", "R", "G", "V">>, <<"E", "N", "V", "P">>}
       \/ result.val \in ClosedBaseTags
       \/ \E base \in ClosedBaseTags, n \in 1..(MaxPointers + 2) :
             result.val = base \o <<"_">> \o repeat(<<"P">>, n)

C10_PointerSuffix ==
    (/\ Simplified
     /\ result.exc = "none"
     /\ ~(decl.val.identifier # None
          /\ decl.val.identifier.tokens[1] \in {<<"a", "r", "g", "v">>, <<"e", "n", "v", "p">>}))
    => LET n == TrailingPointers
           unqualified == SelectSeq(decl.val.typespec, NotQualifier)
           base == base_tag(TakeFirst(unqualified, Len(unqualified) - n), n).val
       IN result.val = IF n = 0 THEN base
                       ELSE IF base = <<"U", "N", "K", "N", "O", "W", "N">> THEN <<"U", "N", "K", "N", "O", "W", "N", "_", "P">>
                       ELSE base \o <<"_">> \o repeat(<<"P">>, n)

\* C10 witness: a char with two trailing pointers has been simplified to
\* CHAR_PP.
C10_Witness ==
    /\ Simplified
    /\ result.exc = "none"
    /\ decl.val.identifier = None
    /\ SpecifierWords = <<<<"c", "h", "a", "r">>>>
    /\ TrailingPointers = 2
    /\ result.val = <<"C", "H", "A", "R", "_", "P", "P">>

\* The TypeDecl of the text has been built, or has raised.
Made == op = "simplify" /\ pc # "start"

\* The Part sequence typedecl.parse returned for an accepted declaration.
Parts(d) ==
    IF d.identifier = None THEN d.typespec ELSE Append(d.typespec, d.identifier)

\* The identifier's name, empty when there is none.
IdentifierName(d) ==
    IF d.identifier = None THEN <<>> ELSE d.identifier.tokens[1]

\* The token matches a keyword pattern of the classifier.
IsKeyword(token) ==
    \/ token \in TYPE_SPECIFIERS \cup TAG_SPECIFIERS \cup TYPE_QUALIFIERS
    \/ token \in TYPE_SPECIFIERS_EXTRA
    \/ TYPE_SPECIFIERS_EXTRA_RE(token)

\* C11: a declaration whose first specifier is void makes simplify fail when
\* it has another specifier part or no trailing pointer, and otherwise gives
\* VOID_ followed by one P per trailing pointer.
C11_VoidNeedsPointer ==
    (Simplified /\ Len(SpecifierWords) >= 1 /\ SpecifierWords[1] = <<"v", "o", "i", "d">>)
    => IF Len(SpecifierWords) > 1 \/ TrailingPointers = 0
       THEN result.exc # "none"
       ELSE /\ result.exc = "none"
            /\ result.val = <<"V", "O", "I", "D", "_">> \o repeat(<<"P">>, TrailingPointers)

\* C11 witness: void * has been simplified to VOID_P.
C11_Witness ==
    /\ Simplified
    /\ SpecifierWords = <<<<"v", "o", "i", "d">>>>
    /\ TrailingPointers = 1
    /\ result.exc = "none"
    /\ result.val = <<"V", "O", "I", "D", "_", "P">>

\* C12: the returned tag is ARGV (ENVP) iff the identifier is exactly argv
\* (envp) and the tag of the same declaration without identifier is CHAR_PP;
\* in every other case the returned tag is that tag.
C12_NameOverride ==
    (Simplified /\ result.exc = "none")
    => LET name == IdentifierName(decl.val)
           pre == simplify([decl.val EXCEPT !.identifier = None]).val
       IN /\ result.val = <<"A", "R", "G", "V">> <=> (name = <<"a", "r", "g", "v">> /\ pre = <<"C", "H", "A", "R", "_", "P", "P">>)
          /\ result.val = <<"E", "N", "V", "P">> <=> (name = <<"e", "n", "v", "p">> /\ pre = <<"C", "H", "A", "R", "_", "P", "P">>)
          /\ ~(name \in {<<"a", "r", "g", "v">>, <<"e", "n", "v", "p">>} /\ pre = <<"C", "H", "A", "R", "_", "P", "P">>)
                => result.val = pre

\* C12 witness: a char double pointer named argv has been simplified to ARGV.
C12_Witness ==
    /\ Simplified
    /\ result.exc = "none"
    /\ IdentifierName(decl.val) = <<"a", "r", "g", "v">>
    /\ SpecifierWords = <<<<"c", "h", "a", "r">>>>
    /\ TrailingPointers = 2
    /\ result.val = <<"A", "R", "G", "V">>

\* C13: the TypeDecl built from the rendering of an accepted declaration is
\* built without error and has the same typespec parts and identifier.
C13_RoundTrip ==
    pc = "rebuilt" => rebuilt.exc = "none" /\ rebuilt.val = decl.val

\* C13 witness: a declaration with an identifier, whose rendering differs
\* from the original text, has been rebuilt from its rendering.
C13_Witness ==
    /\ pc = "rebuilt"
    /\ decl.val.identifier # None
    /\ Len(decl.val.typespec) >= 3
    /\ TypeDecl_repr(decl.val) # text
    /\ rebuilt.exc = "none"
    /\ rebuilt.val = decl.val

\* C14: fundecl.parse fails with ValueError only, and musl.find_decls always
\* returns.
C14_OnlyValueError ==
    /\ ParsedPrototype => result.exc \in {"none", "ValueError"}
    /\ (op = "musl.find_decls" /\ pc = "done") => result.exc = "none"

\* C15: a call with invalidate=True downloads the file and returns the
\* content GitHub serves at that moment.
C15_InvalidateDownloads ==
    (op = "cache" /\ last.called /\ last.invalidate)
    => last.downloaded /\ last.data.ver = last.served

\* C16: the token of an Identifier part matches no keyword pattern.
C16_IdentifierNotKeyword ==
    (Made /\ decl.exc = "none")
    => \A i \in 1..Len(Parts(decl.val)) :
          Parts(decl.val)[i].cls = "Identifier"
             => ~IsKeyword(Parts(decl.val)[i].tokens[1])

\* C17: an Identifier part is the last part, the first part is a
\* TypeSpecifier or a TypeQualifier, and a text with a non-ignored token
\* after a prefix that parses to an Identifier is rejected.
C17_IdentifierLast ==
    Made
    => /\ decl.exc = "none"
            => LET parts == Parts(decl.val)
               IN /\ \A i \in 1..Len(parts) :
                        parts[i].cls = "Identifier" => i = Len(parts)
                  /\ parts[1].cls \in {"TypeSpecifier", "TypeQualifier"}
       /\ LET tokens == clex(text)
          IN (\E k \in 1..(Len(tokens) - 1) :
                 LET head == typedecl_parse(TakeFirst(tokens, k))
                 IN /\ head.exc = "none"
                    /\ head.val # <<>>
                    /\ head.val[Len(head.val)].cls = "Identifier"
                    /\ \E j \in (k + 1)..Len(tokens) : NotIgnored(tokens[j]))
             => decl.exc = "ValueError"

\* C17 witness: a declaration with several parts, the last one an
\* Identifier, has been parsed.
C17_Witness ==
    /\ Made
    /\ decl.exc = "none"
    /\ decl.val.identifier # None
    /\ Len(decl.val.typespec) >= 2

\* C18: a TypeSpecifier part starting with a tag keyword has exactly two
\* tokens, the second one an identifier; every other part has one token.
C18_TagTwoTokens ==
    (Made /\ decl.exc = "none")
    => \A i \in 1..Len(Parts(decl.val)) :
          LET part == Parts(decl.val)[i]
          IN IF part.cls = "TypeSpecifier" /\ part.tokens[1] \in TAG_SPECIFIERS
             THEN Len(part.tokens) = 2 /\ IDENTIFIER_RE(part.tokens[2])
             ELSE Len(part.tokens) = 1

\* C19: the outcome of typedecl.parse on the tokens of the text is its
\* outcome on the tokens without the ignorable ones, and no part holds an
\* ignorable token.
C19_IgnoredDropped ==
    Made
    => LET stripped == typedecl_parse(Words(text))
       IN /\ decl.exc = "ValueError" <=> stripped.exc # "none"
          /\ decl.exc = "none"
               => /\ stripped.exc = "none"
                  /\ Parts(decl.val) = stripped.val
                  /\ \A i \in 1..Len(Parts(decl.val)) :
                        \A j \in 1..Len(Parts(decl.val)[i].tokens) :
                           NotIgnored(Parts(decl.val)[i].tokens[j])

\* C20: a declaration made of a fixed-width integer name of the simplifier,
\* with or without identifier, parses to that name as a one-token
\* TypeSpecifier, and simplify returns the tag SPECIAL_INTS gives it.
C20_FixedWidthKnown ==
    (Made /\ text \in FixedWidthDecls)
    => /\ decl.exc = "none"
       /\ decl.val.typespec = <<TypePart("TypeSpecifier", <<Words(text)[1]>>)>>
       /\ pc = "done"
            => /\ result.exc = "none"
               /\ result.val = SPECIAL_INTS_get(Words(text)[1])

\* clex has returned the tokens of the text.
Lexed == op = "clex" /\ pc = "done" /\ result.exc = "none"

\* The concatenation of the tokens, in order.
RECURSIVE Flatten(_)
Flatten(tokens) ==
    IF tokens = <<>> THEN <<>> ELSE Head(tokens) \o Flatten(Tail(tokens))

NotSpace(c) == c \notin SpaceChars

\* Where each token starts in the text when the tokens are laid over it in
\* order, whitespace being stepped over before each of them.
RECURSIVE TokenStarts(_, _, _)
TokenStarts(txt, tokens, pos) ==
    IF tokens = <<>> THEN <<>>
    ELSE LET at == pos + RunLength(DropFirst(txt, pos - 1), SpaceChars)
         IN <<at>> \o TokenStarts(txt, Tail(tokens), at + Len(Head(tokens)))

====
